---- MODULE Spec2Model ----
(***************************************************************************)
(* Model of src/app.py: the Streamlit script main() seen as a state        *)
(* machine.  Every user event (upload, remove, target selection, view      *)
(* selection, button click) and every st.rerun() causes one complete run   *)
(* of main() against the persistent st.session_state.                      *)
(***************************************************************************)
EXTENDS Integers, Sequences, FiniteSets, TLC

VARIABLES
    st_secrets,      \* GOOGLE_API_KEY in st.secrets (lines 200-204)
    os_environ,      \* GOOGLE_API_KEY in the environment (line 208)
    session_state,   \* st.session_state: the five keys of lines 241-250
    uploaded_file,   \* value of the st.file_uploader widget (line 230)
    target_language, \* value of the target st.selectbox widget (line 268)
    rendered,        \* widgets drawn by the last run (what the user can act on)
    rerun_pending,   \* st.rerun() was called and the rerun has not run yet
    recognized_from, \* history: the image the cached transcription was read from
    recog_ok,        \* history: successful recognitions since the image changed
    trans_ok,        \* history: successful generations per language, same scope
    retry_due,       \* history: the last process run ended in a failed recognition
    ev,              \* history: what the last run of main() did
    gen_call         \* one call of generate_translated_image on its own

vars == <<st_secrets, os_environ, session_state, uploaded_file, target_language, rendered,
          rerun_pending, recognized_from, recog_ok, trans_ok, retry_due, ev,
          gen_call>>

----------------------------------------------------------------------------
(* Bounds of the model *)

NumTargets == 3      \* how many of the eight languages the user picks from
MaxParts == 2        \* parts in a response of the generation service
MaxImages == 2       \* entries in the images list of a response
CallCap == 2         \* the history counters saturate here

(* Python values *)

None == "None"
Truthy(x) == x \notin {None, ""}

NoFile == [name |-> None, size |-> 0, data |-> None]
NoImage == [of |-> NoFile, text |-> None, lang |-> None, v |-> 0]

(* Uploads: the uploader accepts only jpg, jpeg and png names (line 232). *)
Names == {"sign.png", "menu.jpg"}
Sizes == {1024, 2048}
Files ==
    [name : Names, size : Sizes, data : {"ok"}]
    \cup {[name |-> "sign.png", size |-> 2048, data |-> "bad"]}

Pair(f) == <<f.name, f.size>>

Texts == {"OPEN", "EXIT"}

languages ==
    <<"Spanish", "French", "German", "Italian", "Japanese", "Korean", "Chinese", "Hindi">>

TargetChoices == {languages[i] : i \in 2..(1 + NumTargets)}

----------------------------------------------------------------------------
(* dict and list helpers (generated_images is a dict in insertion order) *)

Keys(d) == [i \in 1..Len(d) |-> d[i].lang]
HasKey(d, k) == \E i \in 1..Len(d) : d[i].lang = k
Get(d, k) == d[CHOOSE i \in 1..Len(d) : d[i].lang = k].image
Put(d, k, img) ==
    IF HasKey(d, k)
    THEN [i \in 1..Len(d) |-> IF d[i].lang = k THEN [lang |-> k, image |-> img] ELSE d[i]]
    ELSE Append(d, [lang |-> k, image |-> img])
KeySet(d) == {d[i].lang : i \in 1..Len(d)}
InList(x, l) == \E i \in 1..Len(l) : l[i] = x
IndexOf(l, x) == CHOOSE i \in 1..Len(l) : l[i] = x

----------------------------------------------------------------------------
(* The two service clients *)

\* What the recognition service does with one request: it raises, or it
\* answers with a text that may be empty.
RecogOutcomes ==
    {[raises |-> TRUE, text |-> ""]} \cup
    {[raises |-> FALSE, text |-> t] : t \in Texts \cup {""}}

get_image_text(image, outcome) ==
    IF outcome.raises THEN None ELSE outcome.text

\* What the generation service answers.  A response has parts, an images
\* list and a text; a part may have a direct image and inline data.  Images
\* are numbers (0: none); inline data is the number of the image it decodes
\* to, or BadData when Image.open cannot decode it.  Reading .text may raise.
BadData == -1
TextRaises == "<text raises>"
NoPart == [image |-> 0, inline_data |-> 0]

\* The responses the runs of main() draw from: one per shape, carrying image v.
Shapes ==
    {"part_image", "inline_data", "images", "text", "unknown", "bad_data", "raises"}

ShapeResponse(shape, v) ==
    [raises |-> shape = "raises",
     parts  |-> IF shape = "part_image" THEN <<NoPart, [image |-> v, inline_data |-> 0]>>
                ELSE IF shape = "inline_data" THEN <<NoPart, [image |-> 0, inline_data |-> v]>>
                ELSE IF shape = "bad_data" THEN <<[image |-> 0, inline_data |-> BadData]>>
                ELSE <<>>,
     images |-> IF shape = "images" THEN <<v>> ELSE <<>>,
     text   |-> IF shape = "text" THEN "a sign that says OPEN"
                ELSE IF shape \in {"unknown", "raises"} THEN ""
                ELSE TextRaises]

\* lines 149-158: the parts in order; the first part with a direct image or
\* with inline data ends the scan, and undecodable inline data raises.
RECURSIVE ScanParts(_, _)
ScanParts(parts, i) ==
    IF i > Len(parts) THEN [kind |-> "none", v |-> 0]
    ELSE IF parts[i].image # 0 THEN [kind |-> "image", v |-> parts[i].image]
    ELSE IF parts[i].inline_data # 0
    THEN IF parts[i].inline_data = BadData
         THEN [kind |-> "raised", v |-> 0]
         ELSE [kind |-> "image", v |-> parts[i].inline_data]
    ELSE ScanParts(parts, i + 1)

\* lines 131-176: the image returned (0: None) and the message shown
Answer(response) ==
    IF response.raises
    THEN [v |-> 0, diag |-> "error"]                       \* lines 173-176
    ELSE LET p == ScanParts(response.parts, 1)
         IN  IF p.kind = "raised" THEN [v |-> 0, diag |-> "error"]
             ELSE IF p.kind = "image" THEN [v |-> p.v, diag |-> "none"]
             ELSE IF response.images # <<>>
             THEN [v |-> response.images[1], diag |-> "none"]   \* lines 161-162
             ELSE IF response.text # TextRaises /\ Truthy(response.text)
             THEN [v |-> 0, diag |-> "warning"]                 \* lines 166-167
             ELSE [v |-> 0, diag |-> "none"]                    \* lines 168-172

generate_translated_image(original_image, extracted_text, lang, response) ==
    LET a == Answer(response)
    IN  IF a.v # 0
        THEN [of |-> original_image, text |-> extracted_text, lang |-> lang, v |-> a.v]
        ELSE NoImage

----------------------------------------------------------------------------
(* One run of main() *)

\* What st.secrets may hold for GOOGLE_API_KEY: nothing, a value (possibly
\* empty), or the lookup raises because there is no secrets file.
NoSecretsFile == "<no secrets file>"
SecretStates == {None, NoSecretsFile, "", "key-s"}
\* What os.getenv("GOOGLE_API_KEY") may give.
EnvStates == {None, "", "key-e"}

\* lines 197-208: the secret store first, then the environment
ApiKey(secrets, env) ==
    LET from_secrets == IF secrets \in {None, NoSecretsFile} THEN None ELSE secrets
    IN  IF ~Truthy(from_secrets) THEN env ELSE from_secrets

\* a variant of line 210 that goes on without a credential
ConfigError_Never(api_key) == FALSE

\* line 210
ConfigError(api_key) == ~Truthy(api_key)

\* Image.open(uploaded_file): raises on a malformed upload.
Decodes(f) == f.data = "ok"

EmptyState ==
    [keys |-> FALSE,
     recognized_text |-> None,
     generated_images |-> <<>>,
     original_image |-> NoFile,
     current_file_id |-> None,
     view_language |-> None]

\* lines 241-250: create the keys that are missing
InitSessionState(ss) ==
    IF ss.keys THEN ss ELSE [EmptyState EXCEPT !.keys = TRUE]

\* a variant of line 253 that leaves the size out of the identity
FileId_NameOnly(f) == f.name

\* line 253
FileId(f) == f.name \o ToString(f.size)

\* a variant of lines 254-258 that forgets line 256
ResetIfNew_KeepsImages(ss, f) ==
    IF ss.current_file_id # FileId(f)
    THEN [ss EXCEPT !.recognized_text = None,
                    !.view_language = None,
                    !.current_file_id = FileId(f)]
    ELSE ss

\* a variant of lines 254-258 that forgets line 257
ResetIfNew_KeepsView(ss, f) ==
    IF ss.current_file_id # FileId(f)
    THEN [ss EXCEPT !.recognized_text = None,
                    !.generated_images = <<>>,
                    !.current_file_id = FileId(f)]
    ELSE ss

\* a variant of lines 254-258 that resets on every run
ResetIfNew_Always(ss, f) ==
    [ss EXCEPT !.recognized_text = None,
               !.generated_images = <<>>,
               !.view_language = None,
               !.current_file_id = FileId(f)]

\* lines 254-258
ResetIfNew(ss, f) ==
    IF ss.current_file_id # FileId(f)
    THEN [ss EXCEPT !.recognized_text = None,
                    !.generated_images = <<>>,
                    !.view_language = None,
                    !.current_file_id = FileId(f)]
    ELSE ss

\* a variant of the view selector that loses the user's choice
selectbox_IgnoresPick(options, index, pick) == options[index]

\* st.selectbox of the view selector (lines 296-302).  The widget yields the
\* option the user picked in the event that caused this run; in every other
\* run it yields the option at index, which line 299 computes from
\* view_language.  The value is always one of the options.
selectbox(options, index, pick) ==
    IF InList(pick, options) THEN pick ELSE options[index]

\* a variant of lines 288-305 whose selector always starts at the first language
RenderView_FirstLanguage(ss, pick) ==
    IF ss.generated_images # <<>>
    THEN LET available_languages == Keys(ss.generated_images)
             selected_view_lang == selectbox(available_languages, 1, pick)
         IN  [ss EXCEPT !.view_language = selected_view_lang]
    ELSE ss

\* lines 288-305
RenderView(ss, pick) ==
    IF ss.generated_images # <<>>
    THEN LET available_languages == Keys(ss.generated_images)
             s1 == IF ~Truthy(ss.view_language)
                      \/ ~InList(ss.view_language, available_languages)
                   THEN [ss EXCEPT !.view_language = available_languages[1]]
                   ELSE ss
             index == IF InList(s1.view_language, available_languages)
                      THEN IndexOf(available_languages, s1.view_language)
                      ELSE 1
             selected_view_lang == selectbox(available_languages, index, pick)
         IN  [s1 EXCEPT !.view_language = selected_view_lang]
    ELSE ss

\* a variant of line 350 that recognizes on every process action
NeedText_Always(ss) == TRUE

\* line 350: recognition is needed when no transcription is cached
NeedText(ss) == ~Truthy(ss.recognized_text)

\* a variant of lines 350-360 that forgets line 355
RecognizeStep_NoCache(ss, image, outcome) ==
    IF NeedText(ss)
    THEN LET extracted_text == get_image_text(image, outcome)
         IN  [ss |-> ss, extracted_text |-> extracted_text,
              recog |-> IF Truthy(extracted_text) THEN "ok" ELSE "fail",
              calls |-> <<"recognize">>]
    ELSE [ss |-> ss, extracted_text |-> ss.recognized_text, recog |-> "none",
          calls |-> <<>>]

\* lines 350-360: the transcription to use, cached when recognition succeeds
RecognizeStep(ss, image, outcome) ==
    IF NeedText(ss)
    THEN LET extracted_text == get_image_text(image, outcome)
         IN  IF Truthy(extracted_text)
             THEN [ss |-> [ss EXCEPT !.recognized_text = extracted_text],
                   extracted_text |-> extracted_text, recog |-> "ok",
                   calls |-> <<"recognize">>]
             ELSE [ss |-> ss, extracted_text |-> extracted_text, recog |-> "fail",
                   calls |-> <<"recognize">>]
    ELSE [ss |-> ss, extracted_text |-> ss.recognized_text, recog |-> "none",
          calls |-> <<>>]

\* a variant of line 363 that generates on every process action
NeedImage_Always(ss, target) == TRUE

\* line 363: generation is needed when the target language has no image yet
NeedImage(ss, target) == ~HasKey(ss.generated_images, target)

\* a variant of lines 378-383 that leaves the view language alone
AlreadyExists_KeepsView(ss, target) ==
    [ss |-> ss, trans |-> "cached", sent_text |-> None, rerun |-> FALSE, calls |-> <<>>]

\* lines 378-383: the target language was generated before
AlreadyExists(ss, target) ==
    IF HasKey(ss.generated_images, target)
    THEN [ss |-> [ss EXCEPT !.view_language = target], trans |-> "cached",
          sent_text |-> None, rerun |-> TRUE, calls |-> <<>>]
    ELSE [ss |-> ss, trans |-> "cached", sent_text |-> None, rerun |-> FALSE,
          calls |-> <<>>]

\* a variant of lines 363-383 that stores the result before testing it
TranslateStep_StoresFailure(ss, extracted_text, target, response) ==
    IF NeedImage(ss, target)
    THEN LET generated_image ==
                 generate_translated_image(ss.original_image, extracted_text, target, response)
             stored == [ss EXCEPT
                          !.generated_images = Put(ss.generated_images, target, generated_image)]
         IN  IF generated_image # NoImage
             THEN [ss |-> [stored EXCEPT !.view_language = target],
                   trans |-> "ok", sent_text |-> extracted_text, rerun |-> TRUE,
                   calls |-> <<"generate">>]
             ELSE [ss |-> stored, trans |-> "fail", sent_text |-> extracted_text,
                   rerun |-> FALSE, calls |-> <<"generate">>]
    ELSE AlreadyExists(ss, target)

\* a variant of lines 363-383 that drops the transcription when generation fails
TranslateStep_ForgetsText(ss, extracted_text, target, response) ==
    IF NeedImage(ss, target)
    THEN LET generated_image ==
                 generate_translated_image(ss.original_image, extracted_text, target, response)
         IN  IF generated_image # NoImage
             THEN [ss |-> [ss EXCEPT
                             !.generated_images = Put(ss.generated_images, target, generated_image),
                             !.view_language = target],
                   trans |-> "ok", sent_text |-> extracted_text, rerun |-> TRUE,
                   calls |-> <<"generate">>]
             ELSE [ss |-> [ss EXCEPT !.recognized_text = None], trans |-> "fail",
                   sent_text |-> extracted_text, rerun |-> FALSE,
                   calls |-> <<"generate">>]
    ELSE AlreadyExists(ss, target)

\* lines 363-383
TranslateStep(ss, extracted_text, target, response) ==
    IF NeedImage(ss, target)
    THEN LET generated_image ==
                 generate_translated_image(ss.original_image, extracted_text, target, response)
         IN  IF generated_image # NoImage
             THEN [ss |-> [ss EXCEPT
                             !.generated_images = Put(ss.generated_images, target, generated_image),
                             !.view_language = target],
                   trans |-> "ok", sent_text |-> extracted_text, rerun |-> TRUE,
                   calls |-> <<"generate">>]
             ELSE [ss |-> ss, trans |-> "fail", sent_text |-> extracted_text,
                   rerun |-> FALSE, calls |-> <<"generate">>]
    ELSE AlreadyExists(ss, target)

\* a variant of lines 348-383 without the return of line 358
Process_NoReturn(ss, image, target, outcome, response) ==
    LET r == RecognizeStep(ss, image, outcome)
        t == TranslateStep(r.ss, r.extracted_text, target, response)
    IN  [ss |-> t.ss, recog |-> r.recog, trans |-> t.trans,
         sent_text |-> t.sent_text, rerun |-> t.rerun, calls |-> r.calls \o t.calls]

\* a variant of lines 348-383 with step 2 ahead of step 1
Process_GeneratesFirst(ss, image, target, outcome, response) ==
    LET t == TranslateStep(ss, ss.recognized_text, target, response)
        r == RecognizeStep(t.ss, image, outcome)
    IN  [ss |-> r.ss, recog |-> r.recog, trans |-> t.trans,
         sent_text |-> t.sent_text, rerun |-> t.rerun, calls |-> t.calls \o r.calls]

\* lines 348-383.  The result carries the new session state, what the two
\* services were asked and in which order, and whether st.rerun() was called.
Process(ss, image, target, outcome, response) ==
    LET r == RecognizeStep(ss, image, outcome)
    IN  IF r.recog = "fail"
        THEN [ss |-> r.ss, recog |-> r.recog, trans |-> "none", sent_text |-> None,
              rerun |-> FALSE, calls |-> r.calls]
        ELSE LET t == TranslateStep(r.ss, r.extracted_text, target, response)
             IN  [ss |-> t.ss, recog |-> r.recog, trans |-> t.trans,
                  sent_text |-> t.sent_text, rerun |-> t.rerun,
                  calls |-> r.calls \o t.calls]

\* the record of a run that called no service and touched no state
Quiet(op, target) ==
    [op |-> op, handled |-> FALSE, reset |-> FALSE, dropped |-> 0, view0 |-> None,
     recog |-> "none", trans |-> "none", sent_text |-> None, lang |-> target,
     from |-> "none", retry |-> FALSE, config |-> "ok", calls |-> <<>>,
     pick |-> None, again |-> FALSE]

\* the record of a run that ended at line 222
Halted(op, target) == [Quiet(op, target) EXCEPT !.config = "error"]

Sat(n) == IF n < CallCap THEN n + 1 ELSE n

NoCalls == [l \in TargetChoices |-> 0]

\* main(), lines 178-395, run for event op with the widget values of the run:
\* the uploaded file f, the target language, the button (btn), the view pick.
main(op, f, target, btn, pick, outcome, shape) ==
    IF ConfigError(ApiKey(st_secrets, os_environ))
    THEN \* lines 210-222: nothing below line 222 runs, no widget is drawn
         /\ UNCHANGED <<session_state, recognized_from, recog_ok, trans_ok, retry_due>>
         /\ rendered' = {}
         /\ rerun_pending' = FALSE
         /\ ev' = Halted(op, target)
    ELSE IF f = NoFile
    THEN \* lines 388-395
         /\ UNCHANGED <<session_state, recognized_from, recog_ok, trans_ok, retry_due>>
         /\ rendered' = {"uploader"}
         /\ rerun_pending' = FALSE
         /\ ev' = Quiet(op, target)
    ELSE IF ~Decodes(f)
    THEN \* line 238 raises, lines 385-387
         /\ UNCHANGED <<session_state, recognized_from, recog_ok, trans_ok, retry_due>>
         /\ rendered' = {"uploader"}
         /\ rerun_pending' = FALSE
         /\ ev' = Quiet(op, target)
    ELSE LET s0 == InitSessionState(session_state)
             s1 == ResetIfNew(s0, f)
             s2 == [s1 EXCEPT !.original_image = f]
             s3 == RenderView(s2, pick)
             newimg == Pair(f) # Pair(session_state.original_image)
             rok == IF newimg THEN 0 ELSE recog_ok
             tok == IF newimg THEN NoCalls ELSE trans_ok
             response == ShapeResponse(shape, tok[target] + 1)
             step(s) == IF btn THEN Process(s, f, target, outcome, response)
                        ELSE [ss |-> s, recog |-> "none", trans |-> "none",
                              sent_text |-> None, rerun |-> FALSE, calls |-> <<>>]
         IN  \E s \in {s3} : \E p \in {step(s)} :
             /\ session_state' = p.ss
             /\ rendered' = {"uploader", "target", "button"} \cup
                            (IF s2.generated_images # <<>> THEN {"view"} ELSE {})
             /\ rerun_pending' = p.rerun
             /\ recognized_from' = IF p.recog = "ok" THEN f
                                   ELSE IF Truthy(p.ss.recognized_text) THEN recognized_from
                                   ELSE NoFile
             /\ recog_ok' = IF p.recog = "ok" THEN Sat(rok) ELSE rok
             /\ trans_ok' = IF p.trans = "ok" THEN [tok EXCEPT ![target] = Sat(@)] ELSE tok
             /\ retry_due' = IF btn THEN p.recog = "fail" ELSE retry_due
             /\ ev' = [op |-> op, handled |-> TRUE,
                       reset |-> s0.current_file_id # s1.current_file_id,
                       dropped |-> IF s0.current_file_id # s1.current_file_id
                                   THEN Len(s0.generated_images) ELSE 0,
                       view0 |-> session_state.view_language,
                       recog |-> p.recog, trans |-> p.trans, sent_text |-> p.sent_text,
                       lang |-> target,
                       from |-> IF op = "rerun" THEN ev.trans ELSE "none",
                       retry |-> btn /\ retry_due,
                       config |-> "ok",
                       calls |-> p.calls,
                       pick |-> pick,
                       again |-> /\ btn /\ ev.op = "process" /\ ev.trans = "fail"
                                 /\ ev.lang = target]

\* One run of the script; the script does not change the credential.
Run(op, f, target, btn, pick, outcome, shape) ==
    /\ UNCHANGED <<st_secrets, os_environ, gen_call>>
    /\ main(op, f, target, btn, pick, outcome, shape)

----------------------------------------------------------------------------
(* The events *)

\* The state after the first run of main() in a new browser session, for a
\* given configuration of the credential.
InitWith(secrets, env) ==
    /\ st_secrets = secrets
    /\ os_environ = env
    /\ session_state = EmptyState
    /\ uploaded_file = NoFile
    /\ target_language = languages[3]
    /\ rendered = IF ConfigError(ApiKey(secrets, env)) THEN {} ELSE {"uploader"}
    /\ rerun_pending = FALSE
    /\ recognized_from = NoFile
    /\ recog_ok = 0
    /\ trans_ok = NoCalls
    /\ retry_due = FALSE
    /\ ev = IF ConfigError(ApiKey(secrets, env))
            THEN Halted("init", languages[3]) ELSE Quiet("init", languages[3])

\* no call of generate_translated_image on its own is being looked at
Idle ==
    [state |-> "idle", response |-> ShapeResponse("unknown", 0), image |-> NoImage,
     diag |-> "none"]

\* A deployment with the credential in the environment.
Init == InitWith(None, "key-e") /\ gen_call = Idle

AnyOutcome == [raises |-> TRUE, text |-> ""]
AnyShape == "raises"

\* The user puts a file in the uploader.
Upload ==
    \E f \in Files :
        /\ ~rerun_pending
        /\ "uploader" \in rendered
        /\ f # uploaded_file
        /\ uploaded_file' = f
        /\ UNCHANGED target_language
        /\ Run("upload", f, target_language, FALSE, None, AnyOutcome, AnyShape)

\* The user clears the uploader.
Remove ==
    /\ ~rerun_pending
    /\ "uploader" \in rendered
    /\ uploaded_file # NoFile
    /\ uploaded_file' = NoFile
    /\ UNCHANGED target_language
    /\ Run("remove", NoFile, target_language, FALSE, None, AnyOutcome, AnyShape)

\* The user chooses another target language.
SelectTarget ==
    \E l \in TargetChoices :
        /\ ~rerun_pending
        /\ "target" \in rendered
        /\ l # target_language
        /\ target_language' = l
        /\ UNCHANGED uploaded_file
        /\ Run("target", uploaded_file, l, FALSE, None, AnyOutcome, AnyShape)

\* The user chooses another language in the view selector.
SelectView ==
    \E l \in KeySet(session_state.generated_images) :
        /\ ~rerun_pending
        /\ "view" \in rendered
        /\ l # session_state.view_language
        /\ UNCHANGED <<uploaded_file, target_language>>
        /\ Run("view", uploaded_file, target_language, FALSE, l, AnyOutcome, AnyShape)

\* The user clicks "Process Image"; the services answer as they please.
ProcessImage ==
    \E outcome \in RecogOutcomes, shape \in Shapes :
        /\ ~rerun_pending
        /\ "button" \in rendered
        /\ UNCHANGED <<uploaded_file, target_language>>
        /\ Run("process", uploaded_file, target_language, TRUE, None, outcome, shape)

\* The run that st.rerun() asked for.
Rerun ==
    /\ rerun_pending
    /\ UNCHANGED <<uploaded_file, target_language>>
    /\ Run("rerun", uploaded_file, target_language, FALSE, None, AnyOutcome, AnyShape)

Next ==
    \/ Upload
    \/ Remove
    \/ SelectTarget
    \/ SelectView
    \/ ProcessImage
    \/ Rerun

Spec == Init /\ [][Next]_vars

(* The same program where the credential may be missing and the secret store
   may be edited while the application runs.  The user uploads, processes and
   reruns the script from the menu. *)

\* The secret store is edited; the next run of main() sees the new value.
EditSecrets ==
    \E s \in SecretStates :
        /\ s # st_secrets
        /\ st_secrets' = s
        /\ UNCHANGED <<os_environ, session_state, uploaded_file, target_language,
                       rendered, rerun_pending, recognized_from, recog_ok, trans_ok,
                       retry_due, ev, gen_call>>

\* The user reruns the script from the menu, with the widgets as they are.
UserRerun ==
    /\ ~rerun_pending
    /\ UNCHANGED <<uploaded_file, target_language>>
    /\ Run("user_rerun", uploaded_file, target_language, FALSE, None, AnyOutcome, AnyShape)

InitConfig ==
    /\ \E s \in SecretStates, e \in EnvStates \ {"key-e"} : InitWith(s, e)
    /\ gen_call = Idle

NextConfig ==
    \/ Upload
    \/ ProcessImage
    \/ Rerun
    \/ EditSecrets
    \/ UserRerun

SpecConfig == InitConfig /\ [][NextConfig]_vars

(* One browser session on one uploaded image, in which the services succeed
   in the end and the rerun that st.rerun() asks for takes place. *)

\* The user uploads an image into the empty uploader.
UploadOnce == uploaded_file = NoFile /\ Upload

\* A process action in which the recognition service is called (line 350:
\* no transcription is cached) and succeeds.
RecognitionSucceeds ==
    /\ NeedText(session_state)
    /\ ProcessImage
    /\ ev'.recog = "ok"

\* A process action for language l in which the generation service is called
\* (line 363: l has no image yet) and succeeds.
GenerationSucceeds(l) ==
    /\ target_language = l
    /\ NeedImage(session_state, l)
    /\ ProcessImage
    /\ ev'.trans = "ok"

NextLive ==
    \/ UploadOnce
    \/ SelectTarget
    \/ SelectView
    \/ ProcessImage
    \/ Rerun

SpecLive ==
    /\ Init
    /\ [][NextLive]_vars
    /\ WF_vars(Rerun)
    /\ SF_vars(RecognitionSucceeds)
    /\ \A l \in TargetChoices : SF_vars(GenerationSucceeds(l))

(* generate_translated_image on its own: one call for every response the
   service may give, within the bounds. *)

PartKinds == {"text", "image", "inline_data", "bad_data", "both"}

\* the i-th part of a response; its payloads are numbered after the position
PartOf(kind, i) ==
    [image       |-> IF kind \in {"image", "both"} THEN 10 * i + 1 ELSE 0,
     inline_data |-> IF kind \in {"inline_data", "both"} THEN 10 * i + 2
                     ELSE IF kind = "bad_data" THEN BadData ELSE 0]

GenResponses ==
    {[raises |-> TRUE, parts |-> <<>>, images |-> <<>>, text |-> ""]} \cup
    {[raises |-> FALSE,
      parts  |-> [i \in 1..n |-> PartOf(k[i], i)],
      images |-> [j \in 1..m |-> 90 + j],
      text   |-> t] :
        n \in 0..MaxParts, m \in 0..MaxImages,
        t \in {"", "a sign that says OPEN", TextRaises},
        k \in [1..MaxParts -> PartKinds]}

GenImage == [name |-> "sign.png", size |-> 1024, data |-> "ok"]

InitGen ==
    /\ InitWith(None, "key-e")
    /\ \E r \in GenResponses :
          gen_call = [state |-> "pending", response |-> r, image |-> NoImage,
                      diag |-> "none"]

\* generate_translated_image(original_image, "OPEN", "German") with the
\* service answering gen_call.response
GenCall ==
    /\ gen_call.state = "pending"
    /\ gen_call' = [state    |-> "done",
                    response |-> gen_call.response,
                    image    |-> generate_translated_image(GenImage, "OPEN", "German",
                                                           gen_call.response),
                    diag     |-> Answer(gen_call.response).diag]
    /\ UNCHANGED <<st_secrets, os_environ, session_state, uploaded_file,
                   target_language, rendered, rerun_pending, recognized_from,
                   recog_ok, trans_ok, retry_due, ev>>

NextGen == GenCall

SpecGen == InitGen /\ [][NextGen]_vars

----------------------------------------------------------------------------
(* Properties *)

Transcription == session_state.recognized_text
TranslationSet == session_state.generated_images
ViewSelection == session_state.view_language

\* the run that is taking place handles the upload (it got past line 238)
Handles == ev'.handled
\* ... and the upload has the identity that is stored
SameIdentity == Handles /\ FileId(uploaded_file') = session_state.current_file_id
NewIdentity == Handles /\ FileId(uploaded_file') # session_state.current_file_id

\* C1: a run that handles an upload whose identity differs from the stored one
\* ends with no transcription, no generated image, no view language, and with
\* the new identity stored, whatever was cached before.
C1_ResetOnNewIdentity ==
    [][NewIdentity =>
          /\ Transcription' = None
          /\ TranslationSet' = <<>>
          /\ ViewSelection' = None
          /\ session_state'.current_file_id = FileId(uploaded_file')]_vars

\* a reset that cleared three cached languages
C1_Witness ==
    /\ ev.reset /\ ev.dropped = 3
    /\ TranslationSet = <<>> /\ Transcription = None /\ ViewSelection = None

\* the cached results all come from an image with the (name, size) of the
\* image the session holds, which is the uploaded one when the run handled it
FromLoadedImage ==
    /\ Truthy(Transcription) =>
           Pair(recognized_from) = Pair(session_state.original_image)
    /\ \A i \in 1..Len(TranslationSet) :
           Pair(TranslationSet[i].image.of) = Pair(session_state.original_image)
    /\ ev.handled => session_state.original_image = uploaded_file

\* C2: in every state the cached transcription and every cached image were
\* made from an image with the (name, size) of the loaded image, and a run
\* that handles an upload whose (name, size) differs from the loaded image's
\* treats it as a new identity.
C2_NoStaleResults ==
    /\ []FromLoadedImage
    /\ [][(Handles /\ Pair(uploaded_file') # Pair(session_state.original_image))
             => ev'.reset]_vars

\* an image with the same name and another size replaces one that had two
\* languages cached, and nothing of the old image is held
C2_Witness ==
    /\ ev.op = "upload" /\ ev.reset /\ ev.dropped = 2
    /\ uploaded_file = [name |-> "sign.png", size |-> 2048, data |-> "ok"]
    /\ session_state.original_image = uploaded_file

\* C3: a run that handles an upload with the stored identity clears nothing:
\* a cached transcription and every cached image stay, and unless the run is a
\* process or a view selection the three are exactly as they were.
C3_SameIdentityKeeps ==
    [][SameIdentity =>
          /\ Truthy(Transcription) => Transcription' = Transcription
          /\ \A i \in 1..Len(TranslationSet) :
                 i <= Len(TranslationSet') /\ TranslationSet'[i] = TranslationSet[i]
          /\ ev'.op \notin {"process", "view"} =>
                 /\ Transcription' = Transcription
                 /\ TranslationSet' = TranslationSet
                 /\ ViewSelection' = ViewSelection]_vars

\* the same image uploaded again with two languages cached
C3_Witness ==
    /\ ev.op = "upload" /\ ev.handled /\ ~ev.reset
    /\ Len(TranslationSet) = 2 /\ Truthy(Transcription)


\* the process action that is taking place, in a session that goes on
ProcessNow == ev'.op = "process" /\ SameIdentity

\* C4: once recognition has succeeded for the uploaded image, no later process
\* action on that image calls the recognition service, so it succeeds at most
\* once per uploaded image.
C4_RecognizeOnce ==
    /\ [](recog_ok <= 1)
    /\ [][(ProcessNow /\ recog_ok >= 1) =>
             (ev'.recog = "none" /\ Transcription' = Transcription)]_vars

\* a second language generated from the cached transcription
C4_Witness ==
    /\ ev.op = "process" /\ ev.recog = "none" /\ ev.trans = "ok"
    /\ recog_ok = 1 /\ Len(TranslationSet) = 2

\* C5: a process action for a language that is already cached does not call
\* the generation service and leaves every cached image as it is; generation
\* succeeds at most once per language of one uploaded image.
C5_GenerateOnce ==
    /\ [](\A l \in TargetChoices : trans_ok[l] <= 1)
    /\ [][(ProcessNow /\ HasKey(TranslationSet, target_language)) =>
             /\ ev'.trans = "cached"
             /\ ev'.sent_text = None
             /\ TranslationSet' = TranslationSet
             /\ trans_ok' = trans_ok]_vars

\* a process action for a cached language, with another language cached too
C5_Witness ==
    /\ ev.op = "process" /\ ev.trans = "cached"
    /\ Len(TranslationSet) = 2
    /\ trans_ok[ev.lang] = 1

C7_FailedGenerationKeepsState ==
    [][(ProcessNow /\ ev'.trans = "fail") =>
          /\ TranslationSet' = TranslationSet
          /\ ~HasKey(TranslationSet', target_language)
          /\ ViewSelection' = ViewSelection
          /\ Transcription' = ev'.sent_text
          /\ Truthy(Transcription) => Transcription' = Transcription]_vars

\* generation failed for a language while another language is cached and viewed
C7_Witness ==
    /\ ev.op = "process" /\ ev.trans = "fail"
    /\ Len(TranslationSet) >= 1
    /\ ViewSelection = ev.view0 /\ ViewSelection # ev.lang

\* C8: when recognition fails, no transcription is cached, the generation
\* service is not called in that action, the cached images and the view
\* language are as before, and the next process action calls the recognition
\* service again.
C8_FailedRecognitionRetries ==
    /\ [][(ProcessNow /\ ev'.recog = "fail") =>
             /\ ~Truthy(Transcription')
             /\ ev'.trans = "none" /\ ev'.sent_text = None
             /\ TranslationSet' = TranslationSet
             /\ ViewSelection' = ViewSelection]_vars
    /\ [][(retry_due /\ ev'.op = "process" /\ Handles) => ev'.recog # "none"]_vars

\* recognition failed in the process action that followed a failed one
C8_Witness ==
    /\ ev.op = "process" /\ ev.retry /\ ev.recog = "fail"
    /\ retry_due /\ ~Truthy(Transcription) /\ ev.trans = "none"

\* C9: the view language is a key of the cached images when there are any,
\* and is not set when there are none.
C9_ViewSelectionIsKey ==
    /\ TranslationSet # <<>> => HasKey(TranslationSet, ViewSelection)
    /\ TranslationSet = <<>> => ViewSelection = None

\* the user went back to the first of three generated languages
C9_Witness ==
    /\ ev.op = "view"
    /\ Len(TranslationSet) = 3
    /\ ViewSelection = TranslationSet[1].lang

\* C10: a successful process action for a language L that is not cached
\* appends L to the cached images, leaves the earlier entries as they are and
\* sets the view language to L; the rerun it asks for changes none of this.
C10_SuccessAddsAndSelects ==
    /\ [][(ProcessNow /\ ev'.trans = "ok") =>
             /\ ~HasKey(TranslationSet, target_language)
             /\ Len(TranslationSet') = Len(TranslationSet) + 1
             /\ SubSeq(TranslationSet', 1, Len(TranslationSet)) = TranslationSet
             /\ TranslationSet'[Len(TranslationSet')].lang = target_language
             /\ TranslationSet'[Len(TranslationSet')].image # NoImage
             /\ ViewSelection' = target_language]_vars
    /\ [][(ev'.op = "rerun" /\ ev'.from = "ok") =>
             /\ TranslationSet' = TranslationSet
             /\ ViewSelection' = target_language]_vars

\* German, then French, on one image, after the rerun
C10_Witness ==
    /\ ev.op = "rerun" /\ ev.from = "ok"
    /\ Keys(TranslationSet) = <<"German", "French">>
    /\ ViewSelection = "French"
    /\ recog_ok = 1

\* the credential is absent from the secret store and from the environment
NoCredential ==
    /\ st_secrets \in {None, NoSecretsFile, ""}
    /\ os_environ \in {None, ""}

\* C11: a run of main() without a credential ends with the configuration
\* error: it calls neither service, draws no widget, and leaves the session
\* state, created or not, exactly as it was.
C11_NoCredentialHalts ==
    [][(NoCredential /\ st_secrets' = st_secrets) =>
          /\ ev'.config = "error"
          /\ ev'.recog = "none" /\ ev'.trans = "none"
          /\ session_state' = session_state
          /\ rendered' = {}
          /\ ~rerun_pending']_vars

\* the credential was removed after an image was generated, and the next
\* click on the process button changed nothing
C11_Witness ==
    /\ NoCredential
    /\ ev.config = "error" /\ ev.op = "process"
    /\ Len(TranslationSet) = 1 /\ Truthy(Transcription)

\* a part carries an image: a direct one, or inline data that decodes to one
Carries(part) == part.image # 0 \/ part.inline_data > 0
CarryingParts(r) == {i \in 1..Len(r.parts) : Carries(r.parts[i])}
FirstCarrying(r) ==
    CHOOSE i \in CarryingParts(r) : \A j \in CarryingParts(r) : i <= j

\* C12: when the response carries an image in a part, the call returns the
\* image of the first part that carries one; when no part carries one and the
\* images list is not empty, it returns the first image of the list.
C12_ImageWheneverCarried ==
    (gen_call.state = "done" /\ ~gen_call.response.raises) =>
        LET r == gen_call.response
        IN  /\ CarryingParts(r) # {} =>
                 /\ gen_call.image # NoImage
                 /\ gen_call.image.v \in
                        {r.parts[FirstCarrying(r)].image,
                         r.parts[FirstCarrying(r)].inline_data} \ {0}
            /\ (CarryingParts(r) = {} /\ r.images # <<>>) =>
                 /\ gen_call.image # NoImage
                 /\ gen_call.image.v = r.images[1]

\* C13: when the response carries no image, or the request raises, the call
\* returns no image and shows a message, whether the response has a text or
\* has nothing at all.
C13_FailureHasDiagnostic ==
    (gen_call.state = "done"
       /\ (gen_call.response.raises
           \/ (CarryingParts(gen_call.response) = {}
               /\ gen_call.response.images = <<>>))) =>
        /\ gen_call.image = NoImage
        /\ gen_call.diag # "none"

\* C14: after a failed generation for language L the transcription that was
\* used is still cached and L is still not generated; a process action for a
\* language that is not generated, with a transcription cached, calls only the
\* generation service, with that transcription, and keeps it.
C14_RetryWithoutRecognition ==
    /\ []((ev.op = "process" /\ ev.trans = "fail") =>
             /\ Truthy(Transcription)
             /\ Transcription = ev.sent_text
             /\ ~HasKey(TranslationSet, ev.lang))
    /\ [][(ProcessNow /\ Truthy(Transcription)
             /\ ~HasKey(TranslationSet, target_language)) =>
             /\ ev'.calls = <<"generate">>
             /\ ev'.recog = "none"
             /\ ev'.sent_text = Transcription
             /\ Transcription' = Transcription]_vars

\* the process action right after a failed generation for the same language
\* succeeded without a recognition call
C14_Witness ==
    /\ ev.op = "process" /\ ev.again
    /\ ev.calls = <<"generate">> /\ ev.trans = "ok"
    /\ ev.sent_text = Transcription

\* C15: a run caused by a choice in the view selector calls no service and
\* leaves the transcription, the cached images and the stored identity as
\* they were; the view language becomes the chosen language.
C15_ViewSelectIsPure ==
    [][ev'.op = "view" =>
          /\ ev'.calls = <<>> /\ ev'.recog = "none" /\ ev'.trans = "none"
          /\ Transcription' = Transcription
          /\ TranslationSet' = TranslationSet
          /\ session_state'.current_file_id = session_state.current_file_id
          /\ HasKey(TranslationSet, ev'.pick)
          /\ ViewSelection' = ev'.pick
          /\ ~rerun_pending']_vars

\* the user switched from the language generated last to an earlier one
C15_Witness ==
    /\ ev.op = "view" /\ ev.pick = ViewSelection
    /\ ev.view0 # ViewSelection /\ Truthy(ev.view0)
    /\ Len(TranslationSet) = 2 /\ ViewSelection = TranslationSet[1].lang

\* C17: whenever an image is cached, a transcription is cached too and the
\* identity of the image is stored.
C17_ImagesImplyTranscription ==
    TranslationSet # <<>> =>
        /\ Truthy(Transcription)
        /\ session_state.keys
        /\ Truthy(session_state.current_file_id)
        /\ \A i \in 1..Len(TranslationSet) :
               TranslationSet[i].image.text = Transcription

\* the first image of a session, recognized and generated in one action
C17_Witness ==
    /\ ev.op = "process" /\ ev.recog = "ok" /\ ev.trans = "ok"
    /\ Len(TranslationSet) = 1
    /\ Transcription = TranslationSet[1].image.text

\* the service calls a process action may make, in order
AllowedCalls ==
    {<<>>, <<"recognize">>, <<"generate">>, <<"recognize", "generate">>}

\* C18: a process action calls recognition at most once and generation at
\* most once, recognition first; generation is only called with a non-empty
\* transcription and for a language of the fixed list that is not cached.
C18_CallDiscipline ==
    [][ev'.op = "process" =>
          /\ ev'.calls \in AllowedCalls
          /\ InList("generate", ev'.calls) =>
                /\ Truthy(ev'.sent_text)
                /\ InList(target_language', languages)
                /\ ~HasKey(TranslationSet, target_language')]_vars

\* one process action called recognition and then generation
C18_Witness ==
    /\ ev.op = "process"
    /\ ev.calls = <<"recognize", "generate">>
    /\ Truthy(ev.sent_text) /\ ev.trans = "fail"

\* language l is generated and is the one viewed
GeneratedAndViewed(l) ==
    /\ HasKey(TranslationSet, l)
    /\ Get(TranslationSet, l) # NoImage
    /\ ViewSelection = l

\* C16: in one session, if the user stays on target language L with the
\* process button at hand, and the services succeed in the end, then at some
\* time L is generated and viewed, however many failures came first.
C16_RetryReachesResult ==
    \A l \in TargetChoices :
        <>[](target_language = l /\ "button" \in rendered)
            => <>GeneratedAndViewed(l)

\* generation succeeded in the process action that followed a failed
\* recognition
C16_Witness ==
    /\ ev.op = "process" /\ ev.retry
    /\ ev.recog = "ok" /\ ev.trans = "ok"
    /\ GeneratedAndViewed(ev.lang)
====
